---- MODULE Spec2Model ----
(***************************************************************************)
(* Blind-Guidance-Robot-and-System: the backend service (backend/main.py), *)
(* the robot controller (backend/robot_controller.py), the standalone     *)
(* pedestrian assistant (home_navigator.py) and the standalone vision      *)
(* assistant (backend/gemini_vision_simple.py).                            *)
(*                                                                         *)
(* Geometry: GPS fixes are points of one east-west line, a position is an  *)
(* offset in metres on that line, so calculate_distance is the absolute    *)
(* difference and calculate_bearing is 90 (east), 270 (west) or 0 (same    *)
(* point, atan2(0, 0)).                                                    *)
(* Time: time.time() is the variable clock, in seconds, starting at Epoch. *)
(***************************************************************************)
EXTENDS Integers, Sequences, FiniteSets, TLC

\* ---------------------------------------------------------------- bounds
MaxUtter == 3
MaxElapsed == 11
MaxSample == 3
MaxLoops == 2
MaxHomeUtter == 3
MaxLoopUtter == 5
MaxAnalyses == 3

\* ------------------------------------------------------------- constants
GUIDANCE_DISTANCE_THRESHOLD == 20
OFF_ROUTE_THRESHOLD == 50
DESTINATION_THRESHOLD == 5
HEADING_TOLERANCE == 15
UPDATE_INTERVAL == 2
Epoch == 100

None == -1

\* Positions are metres along one east-west line.  With the destination at 120
\* a three-step route from 50 has its waypoints at 73, 96 and 120, so the fixes
\* below fall within 20 m of each waypoint (reached), between 20 and 50 m of
\* one (on route, both announcement intervals) and beyond 50 m (off route).
Positions == {50, 90, 120}
Dests == {120}
TimeSteps == {5, 6}
\* route_instructions of a start request: none (the sample route is used), one
\* step, and three steps of which the last two carry the same instruction
Routes == {<<>>, <<"A">>, <<"A", "B", "B">>}
sample_instructions == <<"S1", "S2", "S3", "S4", "S5", "S6", "S7", "S8", "S9", "S10">>

Abs(x) == IF x < 0 THEN -x ELSE x
Min(a, b) == IF a < b THEN a ELSE b

VARIABLES
    \* backend/main.py: AudioSystem
    audio_queue, currently_speaking, wpc, inflight, completed, synthesis,
    cleared, passedOver, nextId, lastSaid,
    \* backend/main.py: event-loop thread (the handlers) and clear_queue's loop
    mpc, mcont, old_time, lastOp,
    \* backend/main.py: VoiceNavigator
    has_voice, current_gps, destination, route_instructions, waypoints,
    current_waypoint_index, current_instruction_index, navigation_active, last_announcement_time,
    last_spoken_instruction, clock,
    \* backend/robot_controller.py: RobotController and its loop threads
    firebase_up, is_navigating, r_destination, current_heading,
    last_update_time, tpc, t_dest, t_gate, t_direction, published, t_arrived,
    t_late,
    \* one call of calculate_next_direction: its inputs and its result
    q_gps, q_hd, q_stale, q_result,
    \* home_navigator.py: VoiceNavigator audio
    h_phase, h_is_macos, h_audio_worker_running, h_queue, h_workers, h_wpc,
    h_msg, h_playing, h_killed, h_direct, h_nextId,
    \* home_navigator.py: the navigation loop (navigate_to_destination); h_said
    \* lists the speak() calls of the current iteration
    h_lpc, h_is_navigating, h_route_waypoints, h_current_waypoint_index,
    h_last_spoken_instruction, h_last_speech_time, location_update_counter,
    h_current_location, h_said,
    \* bearing_to_direction applied once: the bearing, the number of compass
    \* points of the table used, and the label returned
    c_bearing, c_resolution, c_label,
    \* backend/gemini_vision_simple.py: AudioSystem.speaking, the analysis
    \* threads (analyze_and_speak) and the speech thread each one started
    g_speaking, g_apc, g_spc

audioVars == <<audio_queue, currently_speaking, wpc, inflight, completed, synthesis,
               cleared, passedOver, nextId, lastSaid>>
mainVars == <<mpc, mcont, old_time, lastOp>>
navVars == <<has_voice, current_gps, destination, route_instructions, waypoints,
             current_waypoint_index, current_instruction_index, navigation_active,
             last_announcement_time, last_spoken_instruction>>
robotVars == <<firebase_up, is_navigating, r_destination, current_heading,
               last_update_time, tpc, t_dest, t_gate, t_direction, published,
               t_arrived, t_late>>
decideVars == <<q_gps, q_hd, q_stale, q_result>>
homeVars == <<h_phase, h_is_macos, h_audio_worker_running, h_queue, h_workers,
              h_wpc, h_msg, h_playing, h_killed, h_direct, h_nextId>>
loopVars == <<h_lpc, h_is_navigating, h_route_waypoints, h_current_waypoint_index,
              h_last_spoken_instruction, h_last_speech_time, location_update_counter,
              h_current_location, h_said>>
compassVars == <<c_bearing, c_resolution, c_label>>
visionVars == <<g_speaking, g_apc, g_spc>>
vars == <<audioVars, mainVars, navVars, clock, robotVars, decideVars, homeVars, loopVars,
          compassVars, visionVars>>

\* ------------------------------------------------- DirectionResolver (main.py)
calculate_distance(a, b) == Abs(a - b)

calculate_bearing(a, b) == IF b > a THEN 90 ELSE IF b < a THEN 270 ELSE 0

directions == <<"north", "north-northeast", "northeast", "east-northeast",
                "east", "east-southeast", "southeast", "south-southeast",
                "south", "south-southwest", "southwest", "west-southwest",
                "west", "west-northwest", "northwest", "north-northwest">>

\* the sector is found by truncation
bearing_to_direction_Floor(bearing) == directions[(((4 * bearing) \div 90) % 16) + 1]

\* round(bearing / 22.5) % 16; an integer bearing is never half way between
\* two sectors, so round() is floor(x + 1/2) = (4 * bearing + 45) div 90
bearing_to_direction(bearing) == directions[(((4 * bearing + 45) \div 90) % 16) + 1]

\* home_navigator.py: the 8-point table
h_directions == <<"North", "North-East", "East", "South-East",
                  "South", "South-West", "West", "North-West">>

\* round(bearing / 45) % 8 = ((2 * bearing + 45) div 90) % 8, again without ties
h_bearing_to_direction(bearing) == h_directions[(((2 * bearing + 45) \div 90) % 8) + 1]

Bearings == 0..359
Resolutions == {8, 16}
NoLabel == "none"

\* bearing_to_direction applied once to c_bearing, with the table of main.py
\* (16 points) or of home_navigator.py (8 points)
CompassLabel ==
    /\ c_label = NoLabel
    /\ c_label' = IF c_resolution = 16 THEN bearing_to_direction(c_bearing)
                                       ELSE h_bearing_to_direction(c_bearing)
    /\ UNCHANGED <<c_bearing, c_resolution>>
    /\ UNCHANGED <<audioVars, mainVars, navVars, clock, robotVars, decideVars, visionVars,
                   homeVars, loopVars>>

\* ------------------------------------------------------ AudioSystem (main.py)
Msg(kind, instr, dir, dist) == [kind |-> kind, instr |-> instr, dir |-> dir, dist |-> dist]

\* a put that lets the new message jump the queue
QueuePut_Front(q, u) == <<u>> \o q

\* Queue.put: append at the tail
QueuePut(q, u) == Append(q, u)

\* speak(): the queue is unbounded and enabled is True, so every non-empty
\* message is queued.  ms is the sequence of messages one handler speaks.
\* Utterances are numbered in the order of the put() calls.
RECURSIVE SpeakAll(_, _, _)
SpeakAll(q, n, ms) ==
    IF ms = <<>> THEN q
    ELSE SpeakAll(QueuePut(q, n), n + 1, Tail(ms))

Speak(ms) ==
    /\ nextId + Len(ms) - 1 <= MaxUtter
    /\ audio_queue' = SpeakAll(audio_queue, nextId, ms)
    /\ nextId' = nextId + Len(ms)
    /\ lastSaid' = ms

Ids(q) == {q[i] : i \in 1..Len(q)}

\* a worker that starts the synthesis without waiting for it (Popen for run)
WorkerMayGet_NoWait == TRUE

\* _audio_worker: get() is reached again only after the finally block of the
\* utterance before (subprocess.run blocks)
WorkerMayGet == wpc = "get"

WorkerGet ==
    /\ WorkerMayGet
    /\ audio_queue # <<>>
    /\ inflight' = inflight \cup {Head(audio_queue)}
    /\ audio_queue' = Tail(audio_queue)
    /\ currently_speaking' = TRUE
    /\ wpc' = "speaking"
    /\ synthesis' = "none"
    /\ UNCHANGED <<completed, cleared, passedOver, nextId, lastSaid>>
    /\ UNCHANGED <<mainVars, navVars, clock, robotVars, decideVars, compassVars, visionVars, homeVars, loopVars>>

\* what subprocess.run (or the sleep that stands for it) did with the
\* utterance of the worker's current iteration
SynthesisOutcomes == {"returned", "timeout", "error"}

\* a worker that an audio timeout or error ends: the flag is left up and
\* get() is not reached again
WorkerFinish_Stall ==
    /\ wpc = "speaking"
    /\ \E i \in inflight, outcome \in SynthesisOutcomes :
        /\ synthesis' = outcome
        /\ currently_speaking' = (outcome # "returned")
        /\ completed' = Append(completed, i)
        /\ inflight' = inflight \ {i}
        /\ wpc' = IF outcome # "returned" THEN "stopped"
                  ELSE IF inflight' = {} THEN "get" ELSE "speaking"
    /\ UNCHANGED <<audio_queue, cleared, passedOver, nextId, lastSaid>>
    /\ UNCHANGED <<mainVars, navVars, clock, robotVars, decideVars, compassVars, visionVars, homeVars, loopVars>>

\* subprocess.run returns, times out after 60 s or raises: the finally block
\* runs in all three cases
WorkerFinish ==
    /\ wpc = "speaking"
    /\ \E i \in inflight, outcome \in SynthesisOutcomes :
        /\ synthesis' = outcome
        /\ currently_speaking' = FALSE
        /\ completed' = Append(completed, i)
        /\ inflight' = inflight \ {i}
        /\ wpc' = IF inflight' = {} THEN "get" ELSE "speaking"
    /\ UNCHANGED <<audio_queue, cleared, passedOver, nextId, lastSaid>>
    /\ UNCHANGED <<mainVars, navVars, clock, robotVars, decideVars, compassVars, visionVars, homeVars, loopVars>>

\* clear_queue: while not empty(): get_nowait(); task_done().  Each empty()
\* and each get_nowait() takes the queue's lock on its own, so the worker's
\* get() can run between them.
ClearBegin(cont, ot) ==
    /\ mpc' = "clear_check"
    /\ mcont' = cont
    /\ old_time' = ot
    /\ passedOver' = {}

ClearCheck ==
    /\ mpc = "clear_check"
    /\ audio_queue # <<>>
    /\ mpc' = "clear_get"
    /\ UNCHANGED <<mcont, old_time, lastOp, audioVars>>
    /\ UNCHANGED <<navVars, clock, robotVars, decideVars, compassVars, visionVars, homeVars, loopVars>>

ClearGet ==
    /\ mpc = "clear_get"
    /\ audio_queue # <<>>
    /\ cleared' = cleared \cup {Head(audio_queue)}
    /\ passedOver' = passedOver \cup Ids(Tail(audio_queue))
    /\ audio_queue' = Tail(audio_queue)
    /\ mpc' = "clear_check"
    /\ UNCHANGED <<mcont, old_time, lastOp>>
    /\ UNCHANGED <<currently_speaking, wpc, inflight, completed, synthesis, nextId, lastSaid>>
    /\ UNCHANGED <<navVars, clock, robotVars, decideVars, compassVars, visionVars, homeVars, loopVars>>

\* ------------------------------------------------- VoiceNavigator (main.py)
Waypoint(pos, instruction) == [pos |-> pos, instruction |-> instruction]

\* set_destination: waypoint i of n lies at progress (i + 1) / n between the
\* current fix and the destination, or at the destination without a fix
RouteWaypoints(gps, dest, route) ==
    IF route # <<>>
    THEN [i \in 1..Len(route) |->
            Waypoint(IF gps # None THEN gps + ((dest - gps) * i) \div Len(route) ELSE dest,
                     route[i])]
    ELSE <<Waypoint(dest, "Arrive at destination")>>

SetDestination(gps, dest, route, extra) ==
    /\ destination' = dest
    /\ route_instructions' = route
    /\ current_waypoint_index' = 0 /\ current_instruction_index' = 0
    /\ navigation_active' = TRUE
    /\ last_spoken_instruction' = ""
    /\ waypoints' = RouteWaypoints(gps, dest, route)
    /\ Speak(<<Msg("initial", "", "", Len(route))>> \o extra)

\* generate_sample_route_instructions: the first 3..7 sample instructions
SampleRoutes == {SubSeq(sample_instructions, 1, n) : n \in 3..Min(7, MaxSample)}

Result(branch, idx, lsi, lat, say) ==
    [branch |-> branch, idx |-> idx, lsi |-> lsi, lat |-> lat, say |-> say]

\* the else of line 419 lost: the approach message is spoken after the instruction
ReachedBranch_Both(gps, wps, idx, lsi, lat, now) ==
    IF idx + 1 < Len(wps)
    THEN LET next_waypoint == wps[idx + 2]
             instruction == next_waypoint.instruction
         IN  IF instruction # "" /\ instruction # lsi
             THEN Result("reached", idx + 1, instruction, now,
                         <<Msg("next", instruction,
                               bearing_to_direction(calculate_bearing(gps, next_waypoint.pos)), 0),
                           Msg("approaching", "", "", 0)>>)
             ELSE Result("reached", idx + 1, lsi, now, <<Msg("approaching", "", "", 0)>>)
    ELSE Result("reached", idx + 1, lsi, now, <<Msg("approaching", "", "", 0)>>)

\* the index wraps to the first waypoint when the last one is reached
ReachedBranch_Wrap(gps, wps, idx, lsi, lat, now) ==
    IF idx + 1 < Len(wps)
    THEN LET next_waypoint == wps[idx + 2]
             instruction == next_waypoint.instruction
         IN  IF instruction # "" /\ instruction # lsi
             THEN Result("reached", idx + 1, instruction, now,
                         <<Msg("next", instruction,
                               bearing_to_direction(calculate_bearing(gps, next_waypoint.pos)), 0)>>)
             ELSE Result("reached", idx + 1, lsi, lat, <<>>)
    ELSE Result("reached", 0, lsi, now, <<Msg("approaching", "", "", 0)>>)

\* the instruction of the waypoint just reached is spoken, not the next one
ReachedBranch_Stale(gps, wps, idx, lsi, lat, now) ==
    IF idx + 1 < Len(wps)
    THEN LET reached_waypoint == wps[idx + 1]
             instruction == reached_waypoint.instruction
         IN  IF instruction # "" /\ instruction # lsi
             THEN Result("reached", idx + 1, instruction, now,
                         <<Msg("next", instruction,
                               bearing_to_direction(calculate_bearing(gps, reached_waypoint.pos)),
                               0)>>)
             ELSE Result("reached", idx + 1, lsi, lat, <<>>)
    ELSE Result("reached", idx + 1, lsi, now, <<Msg("approaching", "", "", 0)>>)

\* the index is advanced by two when the last waypoint is reached
ReachedBranch_Overrun(gps, wps, idx, lsi, lat, now) ==
    IF idx + 1 < Len(wps)
    THEN LET next_waypoint == wps[idx + 2]
             instruction == next_waypoint.instruction
         IN  IF instruction # "" /\ instruction # lsi
             THEN Result("reached", idx + 1, instruction, now,
                         <<Msg("next", instruction,
                               bearing_to_direction(calculate_bearing(gps, next_waypoint.pos)), 0)>>)
             ELSE Result("reached", idx + 1, lsi, lat, <<>>)
    ELSE Result("reached", idx + 2, lsi, now, <<Msg("approaching", "", "", 0)>>)

\* provide_navigation_guidance, lines 394-421: the waypoint is reached
ReachedBranch(gps, wps, idx, lsi, lat, now) ==
    IF idx + 1 < Len(wps)
    THEN LET next_waypoint == wps[idx + 2]
             instruction == next_waypoint.instruction
         IN  IF instruction # "" /\ instruction # lsi
             THEN Result("reached", idx + 1, instruction, now,
                         <<Msg("next", instruction,
                               bearing_to_direction(calculate_bearing(gps, next_waypoint.pos)), 0)>>)
             ELSE Result("reached", idx + 1, lsi, lat, <<>>)
    ELSE Result("reached", idx + 1, lsi, now, <<Msg("approaching", "", "", 0)>>)

\* the off-route warning is repeated as soon as 10 seconds have passed
OffRouteBranch_AtTen(gps, wp, d, idx, lsi, lat, now) ==
    IF now - lat >= 10
    THEN Result("off_route", idx, lsi, now,
                <<Msg("off_route", "", bearing_to_direction(calculate_bearing(gps, wp.pos)), d)>>)
    ELSE Result("off_route", idx, lsi, lat, <<>>)

\* lines 423-440: off route
OffRouteBranch(gps, wp, d, idx, lsi, lat, now) ==
    IF now - lat > 10
    THEN Result("off_route", idx, lsi, now,
                <<Msg("off_route", "", bearing_to_direction(calculate_bearing(gps, wp.pos)), d)>>)
    ELSE Result("off_route", idx, lsi, lat, <<>>)

\* from 30 m on the interval is 15 s
min_interval_Far(d) == IF d < 30 THEN 5 ELSE 15

\* lines 444-449
min_interval(d) == IF d < 30 THEN 5 ELSE IF d < 100 THEN 8 ELSE 15

\* the progress update is repeated as soon as the interval has passed
OnRouteBranch_AtInterval(gps, wp, d, idx, lsi, lat, now) ==
    IF now - lat >= min_interval(d)
    THEN Result("on_route", idx, lsi, now,
                <<Msg("progress", wp.instruction,
                      bearing_to_direction(calculate_bearing(gps, wp.pos)), d)>>)
    ELSE Result("on_route", idx, lsi, lat, <<>>)

\* lines 442-482: progress update on route
OnRouteBranch(gps, wp, d, idx, lsi, lat, now) ==
    IF now - lat > min_interval(d)
    THEN Result("on_route", idx, lsi, now,
                <<Msg("progress", wp.instruction,
                      bearing_to_direction(calculate_bearing(gps, wp.pos)), d)>>)
    ELSE Result("on_route", idx, lsi, lat, <<>>)

\* provide_navigation_guidance up to the choice of its branch; the completed
\* branch (lines 369-380) starts with clear_queue and is finished by
\* ClearDone
Guide(active, gps, wps, idx, lsi, lat, now) ==
    IF ~active \/ gps = None \/ wps = <<>>
    THEN Result("skip", idx, lsi, lat, <<>>)
    ELSE IF idx >= Len(wps)
    THEN Result("completed", idx, lsi, lat, <<>>)
    ELSE LET current_waypoint == wps[idx + 1]
             distance_to_waypoint == calculate_distance(gps, current_waypoint.pos)
         IN  IF distance_to_waypoint < GUIDANCE_DISTANCE_THRESHOLD
             THEN ReachedBranch(gps, wps, idx, lsi, lat, now)
             ELSE IF distance_to_waypoint > OFF_ROUTE_THRESHOLD
             THEN OffRouteBranch(gps, current_waypoint, distance_to_waypoint, idx, lsi, lat, now)
             ELSE OnRouteBranch(gps, current_waypoint, distance_to_waypoint, idx, lsi, lat, now)

\* the part of a tick after provide_navigation_guidance has chosen its branch;
\* old is the caller's saved last_announcement_time (test-guidance) or None
TickEffects(g, old) ==
    IF g.branch = "completed"
    THEN /\ nextId <= MaxUtter
         /\ ClearBegin("completed", old)
         /\ last_announcement_time' = g.lat
         /\ lastSaid' = <<>>
         /\ UNCHANGED <<audio_queue, currently_speaking, wpc, inflight, completed, synthesis,
                        cleared, nextId>>
         /\ UNCHANGED <<current_waypoint_index, current_instruction_index, last_spoken_instruction, waypoints,
                        navigation_active, destination, route_instructions>>
    ELSE /\ Speak(g.say)
         /\ current_waypoint_index' = g.idx /\ UNCHANGED current_instruction_index
         /\ last_spoken_instruction' = g.lsi
         /\ last_announcement_time' = IF old # None /\ g.lat = 0 THEN old ELSE g.lat
         /\ UNCHANGED <<currently_speaking, wpc, inflight, completed, synthesis, cleared, passedOver>>
         /\ UNCHANGED <<mpc, mcont, old_time>>
         /\ UNCHANGED <<waypoints, navigation_active, destination, route_instructions>>

\* POST /navigation/start
StartNavigation(dest, route, cur) ==
    /\ mpc = "idle" /\ has_voice
    /\ lastOp' = "start"
    /\ IF dest = None
       THEN /\ lastSaid' = <<>>
            /\ UNCHANGED <<audio_queue, nextId, navVars>>
       ELSE /\ current_gps' = IF cur # None THEN cur ELSE current_gps
            /\ \E r \in (IF route = <<>> THEN SampleRoutes ELSE {route}) :
                  SetDestination(current_gps', dest, r, <<>>)
            /\ UNCHANGED <<has_voice, last_announcement_time>>
    /\ UNCHANGED <<currently_speaking, wpc, inflight, completed, synthesis, cleared, passedOver>>
    /\ UNCHANGED <<mpc, mcont, old_time, clock, robotVars, decideVars, compassVars, visionVars, homeVars, loopVars>>

\* an update that stamps last_announcement_time whether or not a session is active
UpdatePosition_Stamp(p) ==
    /\ mpc = "idle" /\ has_voice
    /\ lastOp' = "update"
    /\ current_gps' = p
    /\ last_announcement_time' = clock
    /\ lastSaid' = <<>>
    /\ UNCHANGED <<audio_queue, currently_speaking, wpc, inflight, completed, synthesis,
                   cleared, passedOver, nextId>>
    /\ UNCHANGED <<mpc, mcont, old_time>>
    /\ UNCHANGED <<destination, route_instructions, waypoints, current_waypoint_index, current_instruction_index,
                   navigation_active, last_spoken_instruction>>
    /\ UNCHANGED <<has_voice, clock, robotVars, decideVars, compassVars, visionVars, homeVars, loopVars>>

\* POST /navigation/update-gps
UpdatePosition(p) ==
    /\ mpc = "idle" /\ has_voice
    /\ lastOp' = "update"
    /\ current_gps' = p
    /\ IF navigation_active
       THEN TickEffects(Guide(navigation_active, p, waypoints, current_waypoint_index,
                              last_spoken_instruction, last_announcement_time, clock),
                        None)
       ELSE /\ lastSaid' = <<>>
            /\ UNCHANGED <<audio_queue, currently_speaking, wpc, inflight, completed, synthesis,
                           cleared, passedOver, nextId>>
            /\ UNCHANGED <<mpc, mcont, old_time>>
            /\ UNCHANGED <<destination, route_instructions, waypoints,
                           current_waypoint_index, current_instruction_index, navigation_active,
                           last_announcement_time, last_spoken_instruction>>
    /\ UNCHANGED <<has_voice, clock, robotVars, decideVars, compassVars, visionVars, homeVars, loopVars>>

\* test-guidance without the reset of last_announcement_time
ForceTick_Gated ==
    /\ mpc = "idle" /\ has_voice
    /\ lastOp' = "force"
    /\ IF ~navigation_active
       THEN /\ lastSaid' = <<>>
            /\ UNCHANGED <<audio_queue, currently_speaking, wpc, inflight, completed, synthesis,
                           cleared, passedOver, nextId>>
            /\ UNCHANGED <<mpc, mcont, old_time>>
            /\ UNCHANGED <<destination, route_instructions, waypoints,
                           current_waypoint_index, current_instruction_index, navigation_active,
                           last_announcement_time, last_spoken_instruction>>
       ELSE TickEffects(Guide(navigation_active, current_gps, waypoints,
                              current_waypoint_index, last_spoken_instruction,
                              last_announcement_time, clock),
                        last_announcement_time)
    /\ UNCHANGED <<has_voice, current_gps, clock, robotVars, decideVars, compassVars, visionVars, homeVars, loopVars>>

\* POST /navigation/test-guidance
ForceTick ==
    /\ mpc = "idle" /\ has_voice
    /\ lastOp' = "force"
    /\ IF ~navigation_active
       THEN /\ lastSaid' = <<>>
            /\ UNCHANGED <<audio_queue, currently_speaking, wpc, inflight, completed, synthesis,
                           cleared, passedOver, nextId>>
            /\ UNCHANGED <<mpc, mcont, old_time>>
            /\ UNCHANGED <<destination, route_instructions, waypoints,
                           current_waypoint_index, current_instruction_index, navigation_active,
                           last_announcement_time, last_spoken_instruction>>
       ELSE TickEffects(Guide(navigation_active, current_gps, waypoints,
                              current_waypoint_index, last_spoken_instruction, 0, clock),
                        last_announcement_time)
    /\ UNCHANGED <<has_voice, current_gps, clock, robotVars, decideVars, compassVars, visionVars, homeVars, loopVars>>

\* POST /navigation/stop
StopNavigation ==
    /\ mpc = "idle" /\ has_voice
    /\ nextId <= MaxUtter
    /\ lastOp' = "stop"
    /\ navigation_active' = FALSE
    /\ destination' = None
    /\ route_instructions' = <<>>
    /\ waypoints' = <<>>
    /\ current_waypoint_index' = 0 /\ current_instruction_index' = 0
    /\ ClearBegin("stop", None)
    /\ lastSaid' = <<>>
    /\ UNCHANGED <<audio_queue, currently_speaking, wpc, inflight, completed, synthesis, cleared, nextId>>
    /\ UNCHANGED <<has_voice, current_gps, last_announcement_time, last_spoken_instruction>>
    /\ UNCHANGED <<clock, robotVars, decideVars, compassVars, visionVars, homeVars, loopVars>>

\* clear_queue's loop ends (empty() is true, or get_nowait() raises Empty) and
\* the caller goes on: lines 374-380 of the completed branch and the restore
\* of test-guidance (lines 1043-1044), or line 999 of stop_navigation
ClearDone ==
    /\ mpc \in {"clear_check", "clear_get"}
    /\ audio_queue = <<>>
    /\ mpc' = "idle" /\ mcont' = "none" /\ old_time' = None
    /\ IF mcont = "completed"
       THEN /\ Speak(<<Msg("arrival", "", "", 0)>>)
            /\ navigation_active' = FALSE
            /\ waypoints' = <<>>
            /\ current_waypoint_index' = 0 /\ UNCHANGED current_instruction_index
            /\ destination' = None
            /\ route_instructions' = <<>>
            /\ last_announcement_time' =
                  IF old_time # None /\ last_announcement_time = 0
                  THEN old_time ELSE last_announcement_time
            /\ UNCHANGED <<has_voice, current_gps, last_spoken_instruction>>
       ELSE /\ Speak(<<Msg("stopped", "", "", 0)>>)
            /\ UNCHANGED navVars
    /\ UNCHANGED <<currently_speaking, wpc, inflight, completed, synthesis, cleared, passedOver>>
    /\ UNCHANGED <<lastOp, clock, robotVars, decideVars, compassVars, visionVars, homeVars, loopVars>>

\* GET /navigation/status: the response body, lines 1072-1081
get_navigation_status ==
    [navigation_active |-> navigation_active,
     current_location |-> current_gps,
     destination |-> destination,
     route_instructions_count |-> Len(route_instructions),
     current_instruction_index |-> current_instruction_index,
     audio_enabled |-> TRUE]

\* GET /navigation/status reads the navigator and changes nothing
GetStatus ==
    /\ mpc = "idle" /\ has_voice
    /\ lastOp' = "status"
    /\ lastSaid' = <<>>
    /\ UNCHANGED <<audio_queue, currently_speaking, wpc, inflight, completed, synthesis,
                   cleared, passedOver, nextId>>
    /\ UNCHANGED <<mpc, mcont, old_time, navVars, clock, robotVars, decideVars, compassVars, visionVars, homeVars, loopVars>>

\* POST /analyze, /analyze-and-speak: the description (or the error text) is spoken
Analyze ==
    /\ mpc = "idle" /\ has_voice
    /\ lastOp' = "analyze"
    /\ Speak(<<Msg("vision", "", "", 0)>>)
    /\ UNCHANGED <<currently_speaking, wpc, inflight, completed, synthesis, cleared, passedOver>>
    /\ UNCHANGED <<mpc, mcont, old_time, navVars, clock, robotVars, decideVars, compassVars, visionVars, homeVars, loopVars>>

\* time.time() moves on
AdvanceClock(d) ==
    /\ clock + d <= Epoch + MaxElapsed
    /\ clock' = clock + d
    /\ UNCHANGED <<audioVars, mainVars, navVars, robotVars, decideVars, compassVars, visionVars, homeVars, loopVars>>

\* --------------------------------------- RobotController (robot_controller.py)
\* A robot fix is given by its distance and its bearing to the destination,
\* the two quantities calculate_next_direction derives from it.
RobotDistances == {0, 3, 4, 5, 6, 40}
RobotBearings == {0, 10, 20, 52, 60, 70, 180, 359}
Headings == {0, 45, 75, 180, 240, 350}
RobotFixes == [dist : RobotDistances, bearing : RobotBearings]
\* the fixes and headings the loop threads are fed
LoopFixes == [dist : {3, 40}, bearing : {60}]
LoopHeadings == {45, 75}
Threads == 1..MaxLoops
NoDir == "none"
NoFix == [dist |-> None, bearing |-> None]
NoAngle == 999
NoResult == [direction |-> NoDir, distance |-> None, angle_diff |-> NoAngle, heading |-> None]

\* arrival at the threshold itself
Arrived_Inclusive(distance) == distance <= DESTINATION_THRESHOLD

\* line 142
Arrived(distance) == distance < DESTINATION_THRESHOLD

\* the difference taken without the wrap at 0/360
AngleDiff_NoWrap(target_bearing, heading) == target_bearing - heading

\* the difference normalized into (-180, 180]
AngleDiff_UpperClosed(target_bearing, heading) ==
    180 - ((heading - target_bearing + 180) % 360)

\* line 158
AngleDiff(target_bearing, heading) == ((target_bearing - heading + 180) % 360) - 180

\* forward at the tolerance itself
Steer_Inclusive(angle_diff) ==
    IF Abs(angle_diff) <= HEADING_TOLERANCE THEN "forward"
    ELSE IF angle_diff > 0 THEN "right"
    ELSE "left"

\* lines 163-171
Steer(angle_diff) ==
    IF Abs(angle_diff) < HEADING_TOLERANCE THEN "forward"
    ELSE IF angle_diff > 0 THEN "right"
    ELSE "left"

\* calculate_next_direction on a fix gps (or None), with the heading fetch
\* returning hd (or None): the direction, and the locals it was decided from
NextDirection(gps, dest, hd, stale) ==
    IF gps = NoFix \/ dest = None
    THEN [direction |-> NoDir, distance |-> None, angle_diff |-> NoAngle, heading |-> stale]
    ELSE IF Arrived(gps.dist)
    THEN [direction |-> "arrived", distance |-> gps.dist, angle_diff |-> NoAngle, heading |-> stale]
    ELSE LET h == IF hd = None THEN stale ELSE hd
             a == AngleDiff(gps.bearing, h)
         IN  [direction |-> Steer(a), distance |-> gps.dist, angle_diff |-> a, heading |-> h]

\* update_direction_to_firebase: the PUT succeeds or fails
Publish(direction, ok) ==
    published' = IF ok THEN direction ELSE published

\* POST /robot/navigate-to
NavigateTo(dest) ==
    /\ mpc = "idle"
    /\ lastOp' = "navigate"
    /\ IF is_navigating
       THEN /\ lastSaid' = <<>>
            /\ UNCHANGED <<tpc, t_dest, audio_queue, nextId, navVars>>
       ELSE /\ \E t \in Threads :
                /\ tpc[t] = "unborn"
                /\ \A u \in Threads : u < t => tpc[u] # "unborn"
                /\ tpc' = [tpc EXCEPT ![t] = "start"]
                /\ t_dest' = [t_dest EXCEPT ![t] = dest]
            /\ IF has_voice
               THEN /\ SetDestination(current_gps, dest, <<>>, <<Msg("robot_activated", "", "", 0)>>)
                    /\ UNCHANGED <<has_voice, current_gps, last_announcement_time>>
               ELSE /\ lastSaid' = <<>>
                    /\ UNCHANGED <<audio_queue, nextId, navVars>>
    /\ UNCHANGED <<currently_speaking, wpc, inflight, completed, synthesis, cleared, passedOver>>
    /\ UNCHANGED <<mpc, mcont, old_time, clock, decideVars, compassVars, visionVars, homeVars, loopVars>>
    /\ UNCHANGED <<firebase_up, is_navigating, r_destination, current_heading,
                   last_update_time, t_gate, t_direction, published, t_arrived, t_late>>

\* POST /robot/stop: stop_navigation, then the announcement
RobotStop ==
    /\ mpc = "idle"
    /\ lastOp' = "robot_stop"
    /\ is_navigating' = FALSE
    /\ \E ok \in (IF firebase_up THEN BOOLEAN ELSE {FALSE}) : Publish("stopped", ok)
    /\ IF has_voice
       THEN Speak(<<Msg("robot_stopped", "", "", 0)>>)
       ELSE /\ lastSaid' = <<>>
            /\ UNCHANGED <<audio_queue, nextId>>
    /\ UNCHANGED <<currently_speaking, wpc, inflight, completed, synthesis, cleared, passedOver>>
    /\ UNCHANGED <<mpc, mcont, old_time, navVars, clock, decideVars, compassVars, visionVars, homeVars, loopVars>>
    /\ UNCHANGED <<firebase_up, r_destination, current_heading, last_update_time, tpc,
                   t_dest, t_gate, t_direction, t_arrived, t_late>>

\* start_navigation, lines 178-179
T_Start(t) ==
    /\ tpc[t] = "start"
    /\ r_destination' = t_dest[t]
    /\ is_navigating' = TRUE
    /\ tpc' = [tpc EXCEPT ![t] = "init_gps"]
    /\ UNCHANGED <<firebase_up, current_heading, last_update_time, t_dest, t_gate,
                   t_direction, published, t_arrived, t_late>>
    /\ UNCHANGED <<audioVars, mainVars, navVars, clock, decideVars, compassVars, visionVars, homeVars, loopVars>>

\* lines 184-187: the initial fix; without one the method returns False
T_InitGps(t) ==
    /\ tpc[t] = "init_gps"
    /\ \E gps \in (IF firebase_up THEN LoopFixes \cup {NoFix} ELSE {NoFix}) :
          tpc' = [tpc EXCEPT ![t] = IF gps = NoFix THEN "done" ELSE "loop"]
    /\ UNCHANGED <<firebase_up, is_navigating, r_destination, current_heading,
                   last_update_time, t_dest, t_gate, t_direction, published,
                   t_arrived, t_late>>
    /\ UNCHANGED <<audioVars, mainVars, navVars, clock, decideVars, compassVars, visionVars, homeVars, loopVars>>

\* lines 199-207, one period: the flag is read at the top of the loop, then
\* the interval (a loop whose interval has not elapsed sleeps and comes back
\* here), then calculate_next_direction; on None the loop goes to line 208
T_Period(t) ==
    /\ tpc[t] = "loop"
    /\ IF ~is_navigating
       THEN /\ tpc' = [tpc EXCEPT ![t] = "done"]
            /\ UNCHANGED <<t_gate, t_direction, current_heading>>
       ELSE /\ clock - last_update_time >= UPDATE_INTERVAL
            /\ \E gps \in LoopFixes \cup {NoFix}, hd \in LoopHeadings \cup {None} :
                 LET r == NextDirection(gps, r_destination, hd, current_heading)
                 IN  /\ current_heading' = r.heading
                     /\ t_direction' = [t_direction EXCEPT ![t] = r.direction]
                     /\ t_gate' = [t_gate EXCEPT ![t] =
                                      IF r.direction = NoDir THEN 0 ELSE clock]
                     /\ tpc' = [tpc EXCEPT ![t] =
                                   IF r.direction = NoDir THEN "miss" ELSE "publish"]
    /\ UNCHANGED <<firebase_up, is_navigating, r_destination, last_update_time, t_dest,
                   published, t_arrived, t_late>>
    /\ UNCHANGED <<audioVars, mainVars, navVars, clock, decideVars, compassVars, visionVars, homeVars, loopVars>>

\* a period without a direction ends the loop
AfterMiss_Fatal == "done"

\* lines 207-210: without a direction the loop sleeps and continues
AfterMiss == "loop"

T_Miss(t) ==
    /\ tpc[t] = "miss"
    /\ tpc' = [tpc EXCEPT ![t] = AfterMiss]
    /\ UNCHANGED <<firebase_up, is_navigating, r_destination, current_heading,
                   last_update_time, t_dest, t_gate, t_direction, published,
                   t_arrived, t_late>>
    /\ UNCHANGED <<audioVars, mainVars, navVars, clock, decideVars, compassVars, visionVars, homeVars, loopVars>>

\* line 213
T_Publish(t) ==
    /\ tpc[t] = "publish"
    /\ \E ok \in BOOLEAN : Publish(t_direction[t], ok)
    /\ t_late' = [t_late EXCEPT ![t] = IF t_arrived[t] > 0 THEN 1 ELSE 0]
    /\ t_arrived' = [t_arrived EXCEPT ![t] =
                        IF t_direction[t] = "arrived" THEN Min(@ + 1, 2) ELSE @]
    /\ tpc' = [tpc EXCEPT ![t] = "post"]
    /\ UNCHANGED <<firebase_up, is_navigating, r_destination, current_heading,
                   last_update_time, t_dest, t_gate, t_direction>>
    /\ UNCHANGED <<audioVars, mainVars, navVars, clock, decideVars, compassVars, visionVars, homeVars, loopVars>>

\* the flag is left as it is on arrival
ArrivedFlag_Kept(direction, flag) == flag

\* lines 216-219: on 'arrived' the flag is cleared and the loop is left
ArrivedFlag(direction, flag) == IF direction = "arrived" THEN FALSE ELSE flag

AfterPublish(direction) == IF direction = "arrived" THEN "done" ELSE "loop"

\* lines 216-224
T_Post(t) ==
    /\ tpc[t] = "post"
    /\ is_navigating' = ArrivedFlag(t_direction[t], is_navigating)
    /\ tpc' = [tpc EXCEPT ![t] = AfterPublish(t_direction[t])]
    /\ last_update_time' = IF t_direction[t] = "arrived" THEN last_update_time ELSE t_gate[t]
    /\ t_direction' = [t_direction EXCEPT ![t] = NoDir]
    /\ t_gate' = [t_gate EXCEPT ![t] = 0]
    /\ UNCHANGED <<firebase_up, r_destination, current_heading, t_dest, published,
                   t_arrived, t_late>>
    /\ UNCHANGED <<audioVars, mainVars, navVars, clock, decideVars, compassVars, visionVars, homeVars, loopVars>>

\* calculate_next_direction applied once to the inputs q_gps, q_hd, q_stale
Decide ==
    /\ q_result = NoResult
    /\ q_result' = NextDirection(q_gps, 0, q_hd, q_stale)
    /\ UNCHANGED <<q_gps, q_hd, q_stale, compassVars, visionVars>>
    /\ UNCHANGED <<audioVars, mainVars, navVars, clock, robotVars, homeVars, loopVars>>

\* ------------------------------------ VoiceNavigator audio (home_navigator.py)
HWorkers == {1, 2}
Shutdown == 0

HPut(m) ==
    /\ h_queue' = Append(h_queue, m)

HSpawn(w) ==
    /\ h_workers' = h_workers \cup {w}
    /\ h_wpc' = [h_wpc EXCEPT ![w] = "get"]

\* __init__, lines 61-69 and 88
H_Construct ==
    /\ h_phase = "new"
    /\ h_phase' = "constructed"
    /\ h_audio_worker_running' = TRUE
    /\ HSpawn(1)
    /\ HPut(h_nextId)
    /\ h_nextId' = h_nextId + 1
    /\ UNCHANGED <<h_is_macos, h_msg, h_playing, h_killed, h_direct>>
    /\ UNCHANGED <<audioVars, mainVars, navVars, clock, robotVars, decideVars, compassVars, visionVars, loopVars>>

\* start(), lines 754-758
H_StartCall ==
    /\ h_phase = "constructed"
    /\ h_direct = 0
    /\ h_phase' = "started"
    /\ HSpawn(2)
    /\ IF h_audio_worker_running
       THEN HPut(h_nextId) /\ UNCHANGED <<h_direct, h_playing>>
       ELSE /\ h_direct' = h_nextId
            /\ h_playing' = h_playing \cup {h_nextId}
            /\ UNCHANGED h_queue
    /\ h_nextId' = h_nextId + 1
    /\ UNCHANGED <<h_is_macos, h_audio_worker_running, h_msg, h_killed>>
    /\ UNCHANGED <<audioVars, mainVars, navVars, clock, robotVars, decideVars, compassVars, visionVars, loopVars>>

\* speak(): direct speech when the worker flag is down and priority is set,
\* else put on the queue
H_Speak(priority) ==
    /\ h_phase \in {"constructed", "started"}
    /\ h_direct = 0
    /\ h_nextId <= MaxHomeUtter
    /\ IF ~h_audio_worker_running /\ priority
       THEN /\ h_direct' = h_nextId
            /\ h_playing' = h_playing \cup {h_nextId}
            /\ UNCHANGED h_queue
       ELSE HPut(h_nextId) /\ UNCHANGED <<h_direct, h_playing>>
    /\ h_nextId' = h_nextId + 1
    /\ UNCHANGED <<h_phase, h_is_macos, h_audio_worker_running, h_workers, h_wpc,
                   h_msg, h_killed>>
    /\ UNCHANGED <<audioVars, mainVars, navVars, clock, robotVars, decideVars, compassVars, visionVars, loopVars>>

\* the direct subprocess.run of speak() returns
H_DirectEnd ==
    /\ h_direct # 0
    /\ h_playing' = h_playing \ {h_direct}
    /\ h_direct' = 0
    /\ UNCHANGED <<h_phase, h_is_macos, h_audio_worker_running, h_queue, h_workers,
                   h_wpc, h_msg, h_killed, h_nextId>>
    /\ UNCHANGED <<audioVars, mainVars, navVars, clock, robotVars, decideVars, compassVars, visionVars, loopVars>>

\* shutdown(), lines 853-865 (the later definition is the one the class keeps)
H_Shutdown ==
    /\ h_phase \in {"constructed", "started"}
    /\ h_audio_worker_running
    /\ h_audio_worker_running' = FALSE
    /\ HPut(Shutdown)
    /\ UNCHANGED <<h_phase, h_is_macos, h_workers, h_wpc, h_msg, h_playing, h_killed,
                   h_direct, h_nextId>>
    /\ UNCHANGED <<audioVars, mainVars, navVars, clock, robotVars, decideVars, compassVars, visionVars, loopVars>>

\* audio_worker, line 151: the loop ends when the flag is down
H_Exit(w) ==
    /\ h_wpc[w] = "get"
    /\ ~h_audio_worker_running
    /\ h_wpc' = [h_wpc EXCEPT ![w] = "stopped"]
    /\ h_workers' = h_workers \ {w}
    /\ UNCHANGED <<h_phase, h_is_macos, h_audio_worker_running, h_queue, h_msg,
                   h_playing, h_killed, h_direct, h_nextId>>
    /\ UNCHANGED <<audioVars, mainVars, navVars, clock, robotVars, decideVars, compassVars, visionVars, loopVars>>

\* lines 154-157: get(); None ends the worker
H_Get(w) ==
    /\ h_wpc[w] = "get"
    /\ h_queue # <<>>
    /\ h_queue' = Tail(h_queue)
    /\ IF Head(h_queue) = Shutdown
       THEN /\ h_wpc' = [h_wpc EXCEPT ![w] = "stopped"]
            /\ h_workers' = h_workers \ {w}
            /\ UNCHANGED h_msg
       ELSE /\ h_wpc' = [h_wpc EXCEPT ![w] = "kill"]
            /\ h_msg' = [h_msg EXCEPT ![w] = Head(h_queue)]
            /\ UNCHANGED h_workers
    /\ UNCHANGED <<h_phase, h_is_macos, h_audio_worker_running, h_playing, h_killed,
                   h_direct, h_nextId>>
    /\ UNCHANGED <<audioVars, mainVars, navVars, clock, robotVars, decideVars, compassVars, visionVars, loopVars>>

\* lines 162-167: on macOS 'killall say' ends every running say process
H_Kill(w) ==
    /\ h_wpc[w] = "kill"
    /\ h_wpc' = [h_wpc EXCEPT ![w] = "say"]
    /\ IF h_is_macos
       THEN h_killed' = h_killed \cup h_playing /\ h_playing' = {}
       ELSE UNCHANGED <<h_killed, h_playing>>
    /\ UNCHANGED <<h_phase, h_is_macos, h_audio_worker_running, h_queue, h_workers,
                   h_msg, h_direct, h_nextId>>
    /\ UNCHANGED <<audioVars, mainVars, navVars, clock, robotVars, decideVars, compassVars, visionVars, loopVars>>

\* lines 169-180: the synthesis starts
H_Say(w) ==
    /\ h_wpc[w] = "say"
    /\ h_wpc' = [h_wpc EXCEPT ![w] = "speaking"]
    /\ h_playing' = h_playing \cup {h_msg[w]}
    /\ UNCHANGED <<h_phase, h_is_macos, h_audio_worker_running, h_queue, h_workers,
                   h_msg, h_killed, h_direct, h_nextId>>
    /\ UNCHANGED <<audioVars, mainVars, navVars, clock, robotVars, decideVars, compassVars, visionVars, loopVars>>

\* lines 182-195: the synthesis returns, times out or fails (also when its
\* process was killed), and the finally block runs
H_Finish(w) ==
    /\ h_wpc[w] = "speaking"
    /\ h_wpc' = [h_wpc EXCEPT ![w] = "get"]
    /\ h_playing' = h_playing \ {h_msg[w]}
    /\ h_msg' = [h_msg EXCEPT ![w] = 0]
    /\ UNCHANGED <<h_phase, h_is_macos, h_audio_worker_running, h_queue, h_workers,
                   h_killed, h_direct, h_nextId>>
    /\ UNCHANGED <<audioVars, mainVars, navVars, clock, robotVars, decideVars, compassVars, visionVars>>
    /\ h_last_speech_time' = clock
    /\ UNCHANGED <<h_lpc, h_is_navigating, h_route_waypoints, h_current_waypoint_index,
                   h_last_spoken_instruction, location_update_counter,
                   h_current_location, h_said>>

\* ------------------------------ VoiceNavigator loop (home_navigator.py)
\* navigate_to_destination, lines 508-656.  One iteration is two steps of the
\* loop thread, the audio workers running in between: L_Top is the fix, the
\* completion check and the status update (lines 511-543), L_Branch is the
\* choice among reached, off-route and intermediate guidance (lines 546-653),
\* and L_Sleep is the sleep that ends the iteration.
\* the messages spoken before the loop starts: lines 87, 758, 454, 484, 493
\* and 500
StartupUtter == 6

LoopRoute == <<Waypoint(100, "A"), Waypoint(200, "B")>>
\* fixes 40, 25 and 10 m before the first waypoint and 10 m before the second,
\* or no fix
LoopPositions == {None, 60, 75, 90, 190}
LoopCounters == {0, 24, 49}
LoopSpeechAges == {3, 20}

Said(kind, qsize) == [kind |-> kind, qsize |-> qsize]

\* speak() with the audio worker flag up: the message is put on the queue
HSpeak(q, n, ms) == SpeakAll(q, n, ms)

\* lines 539-543: the status update, every 25th iteration
StatusUpdate(counter, qsize, distance_to_waypoint) ==
    IF counter % 25 = 0 /\ qsize < 2 /\ distance_to_waypoint > 30
    THEN <<Said("status", qsize)>>
    ELSE <<>>

LoopResult(idx, lsi, say, raised) ==
    [idx |-> idx, lsi |-> lsi, say |-> say, raised |-> raised]

\* the gate of line 570 with its tests in the other order: the time since
\* the last speech is read before the queue size is tested
LoopBranch_ReadFirst(wps, idx, lsi, counter, qsize, distance_to_waypoint, lst, now) ==
    IF distance_to_waypoint < GUIDANCE_DISTANCE_THRESHOLD
    THEN IF idx + 1 < Len(wps)
         THEN LET instruction == wps[idx + 2].instruction
              IN  IF lst = None
                  THEN LoopResult(idx + 1, lsi, <<>>, TRUE)
                  ELSE IF now - lst >= 8 /\ qsize < 3
                  THEN LoopResult(idx + 1,
                                  IF instruction # "" THEN instruction ELSE "waypoint",
                                  <<Said("guidance", qsize)>>, FALSE)
                  ELSE LoopResult(idx + 1, lsi, <<>>, FALSE)
         ELSE LoopResult(idx + 1, lsi, <<Said("final", qsize)>>, FALSE)
    ELSE IF distance_to_waypoint > 30
    THEN IF qsize < 2
         THEN LoopResult(idx, lsi, <<Said("off_route", qsize)>>, FALSE)
         ELSE LoopResult(idx, lsi, <<>>, FALSE)
    ELSE LoopResult(idx, lsi, <<>>, FALSE)

\* lines 546-653 for a fix at distance_to_waypoint from waypoint idx, with
\* qsize messages on the queue; reading last_speech_time before any message
\* has finished raises AttributeError, which line 666 catches
LoopBranch(wps, idx, lsi, counter, qsize, distance_to_waypoint, lst, now) ==
    IF distance_to_waypoint < GUIDANCE_DISTANCE_THRESHOLD
    THEN IF idx + 1 < Len(wps)
         THEN LET instruction == wps[idx + 2].instruction
              IN  IF qsize < 3
                  THEN IF lst = None
                       THEN LoopResult(idx + 1, lsi, <<>>, TRUE)
                       ELSE IF now - lst >= 8
                       THEN LoopResult(idx + 1,
                                       IF instruction # "" THEN instruction ELSE "waypoint",
                                       <<Said("guidance", qsize)>>, FALSE)
                       ELSE LoopResult(idx + 1, lsi, <<>>, FALSE)
                  ELSE LoopResult(idx + 1, lsi, <<>>, FALSE)
         ELSE LoopResult(idx + 1, lsi, <<Said("final", qsize)>>, FALSE)
    ELSE IF distance_to_waypoint > 30
    THEN IF qsize < 2
         THEN LoopResult(idx, lsi, <<Said("off_route", qsize)>>, FALSE)
         ELSE LoopResult(idx, lsi, <<>>, FALSE)
    ELSE IF counter % 50 = 0 /\ distance_to_waypoint > 50 /\ qsize < 2
    THEN IF lst = None
         THEN LoopResult(idx, lsi, <<>>, TRUE)
         ELSE IF now - lst >= 15
         THEN LoopResult(idx, lsi, <<Said("intermediate", qsize)>>, FALSE)
         ELSE LoopResult(idx, lsi, <<>>, FALSE)
    ELSE LoopResult(idx, lsi, <<>>, FALSE)

\* the 'start navigation' command: start_live_navigation (lines 452-489) and
\* the head of navigate_to_destination (lines 491-506).  With an active trip,
\* a route and a fix it speaks four messages and enters the loop; without
\* them it speaks two and returns.  The workers run between the puts, which
\* leaves the queue and the workers as a worker step after the last put does.
H_StartNavigation ==
    /\ h_phase = "started" /\ h_lpc = "idle"
    /\ h_audio_worker_running
    /\ h_nextId + 4 <= StartupUtter + 1
    /\ \E found \in BOOLEAN :
         IF found
         THEN /\ h_queue' = h_queue \o [i \in 1..4 |-> h_nextId + i - 1]
              /\ h_nextId' = h_nextId + 4
              /\ h_is_navigating' = TRUE
              /\ h_route_waypoints' = LoopRoute
              /\ h_current_waypoint_index' = 0
              /\ h_lpc' = "top"
         ELSE /\ h_queue' = h_queue \o [i \in 1..2 |-> h_nextId + i - 1]
              /\ h_nextId' = h_nextId + 2
              /\ UNCHANGED <<h_is_navigating, h_route_waypoints,
                             h_current_waypoint_index, h_lpc>>
    /\ UNCHANGED <<h_last_spoken_instruction, h_last_speech_time, location_update_counter,
                   h_current_location, h_said>>
    /\ UNCHANGED <<h_phase, h_is_macos, h_audio_worker_running, h_workers, h_wpc, h_msg,
                   h_playing, h_killed, h_direct>>
    /\ UNCHANGED <<audioVars, mainVars, navVars, clock, robotVars, decideVars, compassVars,
                   visionVars>>

\* lines 508-543
L_Top ==
    /\ h_lpc = "top"
    /\ h_is_navigating /\ h_audio_worker_running
    /\ h_nextId <= StartupUtter + MaxLoopUtter
    /\ \E p \in LoopPositions :
        /\ h_current_location' = p
        /\ IF p = None
           THEN /\ h_lpc' = "sleep2"
                /\ h_said' = <<>>
                /\ UNCHANGED <<h_queue, h_nextId, h_is_navigating, location_update_counter>>
           ELSE IF h_current_waypoint_index >= Len(h_route_waypoints)
           THEN /\ h_said' = <<Said("arrival", Len(h_queue))>>
                /\ h_queue' = HSpeak(h_queue, h_nextId, h_said')
                /\ h_nextId' = h_nextId + 1
                /\ h_is_navigating' = FALSE
                /\ h_lpc' = "done"
                /\ UNCHANGED location_update_counter
           ELSE /\ location_update_counter' = location_update_counter + 1
                /\ h_said' = StatusUpdate(location_update_counter', Len(h_queue),
                                 calculate_distance(p,
                                     h_route_waypoints[h_current_waypoint_index + 1].pos))
                /\ h_queue' = HSpeak(h_queue, h_nextId, h_said')
                /\ h_nextId' = h_nextId + Len(h_said')
                /\ h_lpc' = "branch"
                /\ UNCHANGED h_is_navigating
    /\ UNCHANGED <<h_route_waypoints, h_current_waypoint_index, h_last_spoken_instruction,
                   h_last_speech_time>>
    /\ UNCHANGED <<h_phase, h_is_macos, h_audio_worker_running, h_workers, h_wpc, h_msg,
                   h_playing, h_killed, h_direct>>
    /\ UNCHANGED <<audioVars, mainVars, navVars, clock, robotVars, decideVars, compassVars, visionVars>>

\* lines 546-653
L_Branch ==
    /\ h_lpc = "branch"
    /\ h_nextId <= StartupUtter + MaxLoopUtter
    /\ LET r == LoopBranch(h_route_waypoints, h_current_waypoint_index,
                           h_last_spoken_instruction, location_update_counter,
                           Len(h_queue),
                           calculate_distance(h_current_location,
                               h_route_waypoints[h_current_waypoint_index + 1].pos),
                           h_last_speech_time, clock)
       IN  /\ h_current_waypoint_index' = r.idx
           /\ h_last_spoken_instruction' = r.lsi
           /\ h_said' = h_said \o r.say
           /\ h_queue' = HSpeak(h_queue, h_nextId, r.say)
           /\ h_nextId' = h_nextId + Len(r.say)
           /\ h_lpc' = IF r.raised THEN "sleep2" ELSE "sleep8"
    /\ UNCHANGED <<h_is_navigating, h_route_waypoints, h_last_speech_time,
                   location_update_counter, h_current_location>>
    /\ UNCHANGED <<h_phase, h_is_macos, h_audio_worker_running, h_workers, h_wpc, h_msg,
                   h_playing, h_killed, h_direct>>
    /\ UNCHANGED <<audioVars, mainVars, navVars, clock, robotVars, decideVars, compassVars, visionVars>>

\* time.sleep(8) at line 656, or time.sleep(2) at lines 515 and 668
L_Sleep ==
    /\ h_lpc \in {"sleep8", "sleep2"}
    /\ clock' = clock + (IF h_lpc = "sleep8" THEN 8 ELSE 2)
    /\ clock' <= Epoch + MaxElapsed
    /\ h_lpc' = "top"
    /\ UNCHANGED <<h_is_navigating, h_route_waypoints, h_current_waypoint_index,
                   h_last_spoken_instruction, h_last_speech_time,
                   location_update_counter, h_current_location, h_said>>
    /\ UNCHANGED <<audioVars, mainVars, navVars, robotVars, decideVars, compassVars, visionVars, homeVars>>

\* ------------------------------- AudioSystem (backend/gemini_vision_simple.py)
\* AUDIO_ENABLED = True (line 28), so AudioSystem.enabled is constant
g_enabled == TRUE
VThreads == 1..MaxAnalyses

\* lines 193-201: the main loop starts the next analyze_and_speak thread
V_Spawn(t) ==
    /\ g_apc[t] = "unborn"
    /\ \A u \in VThreads : u < t => g_apc[u] # "unborn"
    /\ g_apc' = [g_apc EXCEPT ![t] = "analyze"]
    /\ UNCHANGED <<g_speaking, g_spc>>
    /\ UNCHANGED <<audioVars, mainVars, navVars, clock, robotVars, decideVars, compassVars,
                   homeVars, loopVars>>

\* lines 196-199: analyze_frame returns a description or None; with a
\* description the thread calls speak()
V_Analyze(t) ==
    /\ g_apc[t] = "analyze"
    /\ \E description \in BOOLEAN :
          g_apc' = [g_apc EXCEPT ![t] = IF description THEN "check" ELSE "done"]
    /\ UNCHANGED <<g_speaking, g_spc>>
    /\ UNCHANGED <<audioVars, mainVars, navVars, clock, robotVars, decideVars, compassVars,
                   homeVars, loopVars>>

\* speak, lines 53-54: the flag is read
V_Check(t) ==
    /\ g_apc[t] = "check"
    /\ g_apc' = [g_apc EXCEPT ![t] = IF ~g_enabled \/ g_speaking THEN "done" ELSE "set"]
    /\ UNCHANGED <<g_speaking, g_spc>>
    /\ UNCHANGED <<audioVars, mainVars, navVars, clock, robotVars, decideVars, compassVars,
                   homeVars, loopVars>>

\* speak, lines 56-68: the flag is set and the speech thread is started
V_Set(t) ==
    /\ g_apc[t] = "set"
    /\ g_speaking' = TRUE
    /\ g_spc' = [g_spc EXCEPT ![t] = "say"]
    /\ g_apc' = [g_apc EXCEPT ![t] = "done"]
    /\ UNCHANGED <<audioVars, mainVars, navVars, clock, robotVars, decideVars, compassVars,
                   homeVars, loopVars>>

\* _speak, lines 58-66: the utterance ends and the finally clause lowers the flag
V_Say(t) ==
    /\ g_spc[t] = "say"
    /\ g_spc' = [g_spc EXCEPT ![t] = "ended"]
    /\ g_speaking' = FALSE
    /\ UNCHANGED g_apc
    /\ UNCHANGED <<audioVars, mainVars, navVars, clock, robotVars, decideVars, compassVars,
                   homeVars, loopVars>>

\* ------------------------------------------------------------ specifications
InitBackend ==
    /\ audio_queue = <<>> /\ currently_speaking = FALSE /\ wpc = "get"
    /\ inflight = {} /\ completed = <<>> /\ synthesis = "none"
    /\ cleared = {} /\ passedOver = {}
    /\ nextId = 1 /\ lastSaid = <<>>
    /\ mpc = "idle" /\ mcont = "none" /\ old_time = None /\ lastOp = "init"
    /\ current_gps = None /\ destination = None /\ route_instructions = <<>>
    /\ waypoints = <<>> /\ current_waypoint_index = 0 /\ current_instruction_index = 0 /\ navigation_active = FALSE
    /\ last_announcement_time = 0 /\ last_spoken_instruction = ""
    /\ clock = Epoch
    /\ is_navigating = FALSE /\ r_destination = None /\ current_heading = 0
    /\ last_update_time = 0
    /\ tpc = [t \in Threads |-> "unborn"]
    /\ t_dest = [t \in Threads |-> None]
    /\ t_gate = [t \in Threads |-> 0]
    /\ t_direction = [t \in Threads |-> NoDir]
    /\ published = NoDir
    /\ t_arrived = [t \in Threads |-> 0]
    /\ t_late = [t \in Threads |-> 0]

\* home_navigator.py before VoiceNavigator() is constructed
InitHomeNew ==
    /\ h_phase = "new" /\ h_is_macos \in BOOLEAN /\ h_audio_worker_running = FALSE
    /\ h_queue = <<>> /\ h_workers = {}
    /\ h_wpc = [w \in HWorkers |-> "unborn"]
    /\ h_msg = [w \in HWorkers |-> 0]
    /\ h_playing = {} /\ h_killed = {} /\ h_direct = 0 /\ h_nextId = 1

\* __init__, lines 81-85: no navigation yet; last_speech_time is an attribute
\* only the audio worker creates (line 191)
InitLoopIdle ==
    /\ h_lpc = "idle" /\ h_is_navigating = FALSE /\ h_route_waypoints = <<>>
    /\ h_current_waypoint_index = 0 /\ h_last_spoken_instruction = ""
    /\ h_last_speech_time = None /\ location_update_counter = 0
    /\ h_current_location = None /\ h_said = <<>>

\* no label asked for yet
InitCompassIdle == c_bearing = 0 /\ c_resolution = 16 /\ c_label = NoLabel

\* gemini_vision_simple.py lines 44-47 and 178-179: nothing is being spoken
\* and no analysis thread has been started
InitVisionIdle ==
    /\ g_speaking = FALSE
    /\ g_apc = [t \in VThreads |-> "unborn"]
    /\ g_spc = [t \in VThreads |-> "none"]

InitBase == InitBackend /\ InitHomeNew /\ InitLoopIdle /\ InitCompassIdle /\ InitVisionIdle

InitDecide == q_gps = NoFix /\ q_hd = None /\ q_stale = 0 /\ q_result = NoResult

\* the backend with a Gemini key (voice_navigator exists) and Firebase out of reach
Init == InitBase /\ InitDecide /\ has_voice = TRUE /\ firebase_up = FALSE /\ h_is_macos = TRUE

Next ==
    \/ \E dest \in Dests \cup {None}, route \in Routes, cur \in Positions \cup {None} :
          StartNavigation(dest, route, cur)
    \/ \E p \in Positions : UpdatePosition(p)
    \/ ForceTick
    \/ StopNavigation
    \/ ClearCheck
    \/ ClearGet
    \/ ClearDone
    \/ Analyze
    \/ WorkerGet
    \/ WorkerFinish
    \/ \E d \in TimeSteps : AdvanceClock(d)
    \/ \E dest \in Dests : NavigateTo(dest)
    \/ RobotStop
    \/ \E t \in Threads : T_Start(t)
    \/ \E t \in Threads : T_InitGps(t)

Spec == Init /\ [][Next]_vars

\* the backend without a Gemini key (voice_navigator is None), Firebase reachable
InitRobot == InitBase /\ InitDecide /\ has_voice = FALSE /\ firebase_up = TRUE /\ h_is_macos = TRUE

NextRobot ==
    \/ \E dest \in Dests : NavigateTo(dest)
    \/ RobotStop
    \/ \E t \in Threads : T_Start(t)
    \/ \E t \in Threads : T_InitGps(t)
    \/ \E t \in Threads : T_Period(t)
    \/ \E t \in Threads : T_Miss(t)
    \/ \E t \in Threads : T_Publish(t)
    \/ \E t \in Threads : T_Post(t)
    \/ \E d \in TimeSteps : AdvanceClock(d)

SpecRobot == InitRobot /\ [][NextRobot]_vars

\* the standalone pedestrian assistant, on macOS or elsewhere
InitHome == InitBase /\ InitDecide /\ has_voice = FALSE /\ firebase_up = FALSE

NextHome ==
    \/ H_Construct
    \/ H_StartCall
    \/ \E priority \in BOOLEAN : H_Speak(priority)
    \/ H_DirectEnd
    \/ H_Shutdown
    \/ \E w \in HWorkers : H_Exit(w)
    \/ \E w \in HWorkers : H_Get(w)
    \/ \E w \in HWorkers : H_Kill(w)
    \/ \E w \in HWorkers : H_Say(w)
    \/ \E w \in HWorkers : H_Finish(w)

SpecHome == InitHome /\ [][NextHome]_vars

\* A walk along a route of two steps: from 0 to the destination at 200 the
\* waypoints lie at 100 and 200, so the fixes are 100 m, 60 m and 15 m from
\* the first waypoint and 10 m from the second.  The destination 1200 lies
\* beyond the end of the line (see InRange).
WalkDests == {200, 1200}
WalkRoutes == {<<"A", "B">>}
WalkStarts == {0}
WalkPositions == {0, 40, 85, 190}

InitWalk == Init

NextWalk ==
    \/ \E dest \in WalkDests \cup {None}, route \in WalkRoutes, cur \in WalkStarts :
          StartNavigation(dest, route, cur)
    \/ \E p \in WalkPositions : UpdatePosition(p)
    \/ ForceTick
    \/ GetStatus
    \/ StopNavigation
    \/ ClearCheck
    \/ ClearGet
    \/ ClearDone
    \/ WorkerGet
    \/ WorkerFinish
    \/ \E d \in TimeSteps : AdvanceClock(d)

SpecWalk == InitWalk /\ [][NextWalk]_vars

\* calculate_next_direction as a function of what it reads: the fix, the
\* fetched heading and the stored heading
InitDecideAll ==
    /\ InitBase /\ has_voice = FALSE /\ firebase_up = TRUE /\ h_is_macos = TRUE
    /\ q_gps \in RobotFixes \cup {NoFix}
    /\ q_hd \in Headings \cup {None}
    /\ q_stale \in Headings
    /\ q_result = NoResult

NextDecide == Decide

SpecDecide == InitDecideAll /\ [][NextDecide]_vars

\* The audio system on its own: handlers that speak (analyze) or clear and
\* speak (stop), and the worker thread.  The worker is a daemon thread the
\* scheduler keeps running, get(timeout=1) is retried for ever, and
\* subprocess.run(timeout=60) or the sleep always ends, so both its steps are
\* weakly fair.
NextAudio ==
    \/ Analyze
    \/ StopNavigation
    \/ ClearCheck
    \/ ClearGet
    \/ ClearDone
    \/ WorkerGet
    \/ WorkerFinish

SpecAudio ==
    /\ Init /\ [][NextAudio]_vars
    /\ WF_vars(WorkerGet) /\ WF_vars(WorkerFinish)

\* The navigation loop some iterations into a walk: VoiceNavigator() and
\* start() have run, so both audio workers wait on the queue, which holds up
\* to three messages of the loop; the StartupUtter messages spoken before
\* the loop have been played, so the last message ended 3 or 20 s ago.
InitLoop ==
    /\ InitBackend /\ InitDecide /\ InitCompassIdle /\ InitVisionIdle
    /\ has_voice = FALSE /\ firebase_up = FALSE
    /\ h_phase = "started" /\ h_is_macos = TRUE /\ h_audio_worker_running = TRUE
    /\ h_workers = HWorkers
    /\ h_wpc = [w \in HWorkers |-> "get"]
    /\ h_msg = [w \in HWorkers |-> 0]
    /\ h_playing = {} /\ h_killed = {} /\ h_direct = 0
    /\ \E k \in 0..3 : /\ h_queue = [i \in 1..k |-> StartupUtter + i]
                      /\ h_nextId = StartupUtter + k + 1
    /\ h_lpc = "top" /\ h_is_navigating = TRUE
    /\ h_route_waypoints = LoopRoute
    /\ location_update_counter \in LoopCounters
    /\ h_current_waypoint_index \in
          (IF location_update_counter = 0 THEN {0} ELSE 0..Len(LoopRoute))
    /\ h_last_spoken_instruction =
          (IF h_current_waypoint_index \in 1..(Len(LoopRoute) - 1)
           THEN LoopRoute[h_current_waypoint_index + 1].instruction ELSE "")
    /\ h_last_speech_time \in {Epoch - a : a \in LoopSpeechAges}
    /\ h_current_location = None /\ h_said = <<>>

NextLoop ==
    \/ L_Top
    \/ L_Branch
    \/ L_Sleep
    \/ \E w \in HWorkers : H_Get(w)
    \/ \E w \in HWorkers : H_Kill(w)
    \/ \E w \in HWorkers : H_Say(w)
    \/ \E w \in HWorkers : H_Finish(w)

SpecLoop == InitLoop /\ [][NextLoop]_vars

\* The pedestrian assistant from its construction: VoiceNavigator(), start(),
\* the 'start navigation' command and the loop, with both audio workers
InitJourney == InitBase /\ InitDecide /\ has_voice = FALSE /\ firebase_up = FALSE

NextJourney ==
    \/ H_Construct
    \/ H_StartCall
    \/ H_StartNavigation
    \/ L_Top
    \/ L_Branch
    \/ L_Sleep
    \/ \E w \in HWorkers : H_Get(w)
    \/ \E w \in HWorkers : H_Kill(w)
    \/ \E w \in HWorkers : H_Say(w)
    \/ \E w \in HWorkers : H_Finish(w)

SpecJourney == InitJourney /\ [][NextJourney]_vars

\* bearing_to_direction as a function of the bearing, for both tables
InitCompass ==
    /\ InitBackend /\ InitHomeNew /\ InitLoopIdle /\ InitVisionIdle /\ InitDecide
    /\ has_voice = FALSE /\ firebase_up = FALSE /\ h_is_macos = TRUE
    /\ c_bearing \in Bearings
    /\ c_resolution \in Resolutions
    /\ c_label = NoLabel

NextCompass == CompassLabel

SpecCompass == InitCompass /\ [][NextCompass]_vars

\* the standalone vision assistant: its main loop, the analysis threads and
\* the speech threads
InitVision == InitBase /\ InitDecide /\ has_voice = FALSE /\ firebase_up = FALSE /\ h_is_macos = TRUE

NextVision ==
    \/ \E t \in VThreads : V_Spawn(t)
    \/ \E t \in VThreads : V_Analyze(t)
    \/ \E t \in VThreads : V_Check(t)
    \/ \E t \in VThreads : V_Set(t)
    \/ \E t \in VThreads : V_Say(t)

SpecVision == InitVision /\ [][NextVision]_vars

\* -------------------------------------------------------------------- claims
Range(f) == {f[i] : i \in DOMAIN f}
Started == inflight \cup Range(completed)
Increasing(q) == \A i, j \in 1..Len(q) : i < j => q[i] < q[j]

\* every handler records its name in lastOp as it begins (mpc = "idle"); the
\* worker, the clock and the later steps of a handler leave lastOp alone
StartOps == {"start", "navigate"}
TickOps == {"update", "force"}

\* C1: in the backend AudioSystem at most one utterance is in flight (taken
\* from the queue and not yet finished) at any time, whatever speak(),
\* clear_queue() and the worker do in between.
C1_OneInFlight ==
    /\ Cardinality(inflight) <= 1
    /\ currently_speaking <=> inflight # {}

\* an utterance is in flight while others are pending and clear_queue runs
C1_Witness ==
    /\ Cardinality(inflight) = 1
    /\ audio_queue # <<>>
    /\ mpc \in {"clear_check", "clear_get"}

HInflight ==
    {h_msg[w] : w \in {x \in HWorkers : h_wpc[x] \in {"kill", "say", "speaking"}}}
        \cup (IF h_direct # 0 THEN {h_direct} ELSE {})

\* C2: in home_navigator exactly one audio worker consumes audio_queue, no two
\* utterances are in flight at the same time and no utterance in flight is
\* killed by the start of another.
C2_SingleConsumer ==
    /\ h_audio_worker_running /\ h_phase # "new" => Cardinality(h_workers) = 1
    /\ Cardinality(HInflight) <= 1
    /\ h_killed = {}

\* C3: the backend's utterances finish in the order they were enqueued (the
\* cleared ones left out), and the worker takes the next utterance only when
\* none is in flight.
C3_FifoCompletion ==
    /\ [](Increasing(completed))
    /\ [][inflight' # inflight /\ inflight' # {} => inflight = {}]_vars

\* two utterances finished around one that clear_queue removed
C3_Witness ==
    /\ Len(completed) >= 2
    /\ \E i \in cleared : completed[1] < i /\ i < completed[Len(completed)]

\* C4: clear_queue is atomic: no utterance that was queued behind one it
\* discarded is played, and it never removes an utterance in flight.
C4_AtomicClear ==
    /\ passedOver \cap Started = {}
    /\ cleared \cap Started = {}

\* C5: one guidance tick (update-gps or test-guidance) enqueues at most one
\* utterance.
C5_OneUtterancePerTick ==
    lastOp \in {"update", "force"} => Len(lastSaid) <= 1

\* a tick reached a waypoint and spoke the next instruction
C5_Witness ==
    /\ lastOp \in {"update", "force"}
    /\ Len(lastSaid) = 1
    /\ lastSaid[1].kind = "next"

\* C6, as stated: while navigation_active stays true the waypoint index never
\* decreases, whatever operation runs.
C6_IndexMonotone ==
    [][navigation_active /\ navigation_active'
          => current_waypoint_index' >= current_waypoint_index]_vars

\* C6, amended: while navigation_active stays true the waypoint index never
\* decreases, except that a start (startNavigation or the robot navigate-to
\* endpoint) sets it to 0.
C6_IndexMonotoneBetweenStarts ==
    [][navigation_active /\ navigation_active'
          => \/ current_waypoint_index' >= current_waypoint_index
             \/ lastOp' \in StartOps /\ current_waypoint_index' = 0]_vars

\* a tick has advanced the index of an active session
C6_Witness ==
    /\ navigation_active
    /\ current_waypoint_index >= 1
    /\ lastOp \in {"update", "force"}

\* C7: while navigation_active is false a tick changes no route progress and
\* enqueues nothing, and only a start makes the session active again.
C7_InactiveFrozen ==
    [][/\ ~navigation_active /\ mpc = "idle" /\ lastOp' \in TickOps
            => /\ current_waypoint_index' = current_waypoint_index
               /\ last_spoken_instruction' = last_spoken_instruction
               /\ last_announcement_time' = last_announcement_time
               /\ waypoints' = waypoints
               /\ nextId' = nextId
       /\ ~navigation_active /\ navigation_active' => lastOp' \in StartOps]_vars

\* a position update arrived after the session had ended
C7_Witness ==
    /\ ~navigation_active
    /\ lastOp = "update"
    /\ mpc = "idle"
    /\ lastSaid = <<>>
    /\ nextId > 1
    /\ last_announcement_time > 0

\* C8: the decision is 'arrived' exactly when the distance is below
\* DESTINATION_THRESHOLD, whatever the headings are, fetched or not.
C8_ArrivedIff ==
    q_gps # NoFix /\ q_result # NoResult
        => (q_result.direction = "arrived" <=> q_gps.dist < 5)

\* arrival decided without a heading
C8_Witness ==
    /\ q_result.direction = "arrived"
    /\ q_hd = None
    /\ q_gps.dist = 4

\* C9: with d the normalized difference between the bearing and the heading
\* in use, a decision that gets as far as d is 'forward' exactly when
\* |d| < HEADING_TOLERANCE, and at |d| = HEADING_TOLERANCE it is 'right' for
\* d > 0 and 'left' for d < 0.
C9_ForwardIff ==
    LET h == IF q_hd = None THEN q_stale ELSE q_hd
        d == ((q_gps.bearing - h + 180) % 360) - 180
    IN  /\ q_result.direction = "forward" => q_result.angle_diff # NoAngle
        /\ q_result.angle_diff # NoAngle =>
              /\ q_result.angle_diff = d
              /\ q_result.direction = "forward" <=> Abs(d) < 15
              /\ d = 15 => q_result.direction = "right"
              /\ d = -15 => q_result.direction = "left"

\* a difference of exactly the tolerance turned the robot
C9_Witness ==
    /\ q_result.angle_diff = 15
    /\ q_result.direction = "right"

\* C10: a loop that computes 'arrived' publishes it once, clears is_navigating
\* and ends, and publishes nothing after it.
C10_ArrivedOnce ==
    /\ [](\A t \in Threads :
            /\ t_arrived[t] <= 1
            /\ t_late[t] = 0
            /\ tpc[t] = "post" /\ t_direction[t] = "arrived" => t_arrived[t] = 1)
    /\ [][\A t \in Threads :
            /\ tpc[t] = "post" /\ t_direction[t] = "arrived" /\ tpc'[t] # "post"
                  => ~is_navigating' /\ tpc'[t] = "done"
            /\ tpc[t] = "done" => tpc'[t] = "done"]_vars

\* a loop has arrived and ended
C10_Witness ==
    \E t \in Threads : tpc[t] = "done" /\ t_arrived[t] = 1 /\ ~is_navigating

\* a step of one of the HTTP handlers: they start at mpc = "idle", and every
\* other step of the model moves the clock, the audio worker or a loop thread
HandlerStep ==
    /\ mpc = "idle"
    /\ clock' = clock
    /\ wpc' = wpc
    /\ inflight' = inflight
    /\ tpc' = tpc

\* C11: once stop has cleared is_navigating no loop thread publishes a command
\* any more, and a loop that reads the cleared flag at the top of its period
\* ends.
C11_NoPublishAfterStop ==
    [][/\ (lastOp = "robot_stop" /\ ~is_navigating /\ tpc' # tpc)
            => published' = published
       /\ \A t \in Threads :
            (tpc[t] = "loop" /\ ~is_navigating /\ tpc'[t] # "loop")
                => tpc'[t] = "done"]_vars

\* C12: a period of the loop whose position fetch fails publishes nothing,
\* leaves destination and is_navigating as they are, and the loop goes on to
\* its next period.
C12_MissSkipsPeriod ==
    /\ [](\A t \in Threads : tpc[t] = "miss" => t_direction[t] = NoDir)
    /\ [][\A t \in Threads :
            /\ (tpc[t] = "loop" /\ tpc'[t] = "miss")
                  => /\ published' = published
                     /\ r_destination' = r_destination
                     /\ is_navigating' = is_navigating
            /\ (tpc[t] = "miss" /\ tpc'[t] # "miss")
                  => /\ tpc'[t] = "loop"
                     /\ published' = published
                     /\ r_destination' = r_destination
                     /\ is_navigating' = is_navigating]_vars

\* a navigating loop that had published a command has missed a position
C12_Witness ==
    \E t \in Threads :
        /\ tpc[t] = "miss"
        /\ is_navigating
        /\ published \in {"forward", "left", "right"}

\* C13: with a position that has not arrived and without a fetched heading,
\* calculate_next_direction gives no direction (the period is skipped).
C13_SkipWithoutHeading ==
    (q_result # NoResult /\ q_gps # NoFix /\ ~Arrived(q_gps.dist) /\ q_hd = None)
        => q_result.direction = NoDir

\* the coordinates the interface accepts: on the model's line the valid
\* longitudes end 1000 m either side of 0
InRange(pos) == -1000 <= pos /\ pos <= 1000

\* C14: a start request whose destination is missing or out of range is
\* rejected and changes nothing, so the navigator never holds a destination
\* that is out of range.
C14_RejectsInvalid == destination = None \/ InRange(destination)

\* C15: after stopNavigation the session is inactive with destination,
\* waypoints and index cleared, and no utterance that clear_queue found
\* queued during the stop is played.
C15_StopDiscardsPending ==
    lastOp = "stop" =>
        /\ mpc = "idle" =>
              /\ ~navigation_active
              /\ destination = None
              /\ waypoints = <<>>
              /\ current_waypoint_index = 0
        /\ passedOver \cap Started = {}

\* C16: the index getStatus reports is the waypoint index of the session.
C16_StatusIndex ==
    (lastOp = "status" /\ mpc = "idle" /\ navigation_active)
        => get_navigation_status.current_instruction_index = current_waypoint_index

\* C17: on a route of two waypoints started 100 m from the first one, the
\* tick that follows the start at the same position emits nothing.
C17_QuietFirstTick ==
    [][(/\ HandlerStep
        /\ lastOp = "start" /\ lastOp' = "update"
        /\ navigation_active
        /\ Len(waypoints) = 2 /\ current_waypoint_index = 0
        /\ current_gps # None /\ current_gps' = current_gps
        /\ calculate_distance(current_gps, waypoints[1].pos) = 100)
            => nextId' = nextId]_vars

\* C18: a tick more than 50 m from the active waypoint emits the off-route
\* message and sets last_announcement_time to now exactly when more than 10 s
\* have passed since last_announcement_time; otherwise it emits nothing and
\* changes no progress field.
C18_OffRouteThrottle ==
    [][(/\ HandlerStep
        /\ lastOp' = "update"
        /\ navigation_active
        /\ current_waypoint_index < Len(waypoints)
        /\ calculate_distance(current_gps', waypoints[current_waypoint_index + 1].pos)
              > OFF_ROUTE_THRESHOLD)
            => LET wp == waypoints[current_waypoint_index + 1]
               IN  IF clock - last_announcement_time > 10
                   THEN /\ nextId' = nextId + 1
                        /\ Len(lastSaid') = 1
                        /\ lastSaid'[1].kind = "off_route"
                        /\ lastSaid'[1].dir =
                              bearing_to_direction(calculate_bearing(current_gps', wp.pos))
                        /\ lastSaid'[1].dist = calculate_distance(current_gps', wp.pos)
                        /\ last_announcement_time' = clock
                   ELSE /\ nextId' = nextId
                        /\ lastSaid' = <<>>
                        /\ last_announcement_time' = last_announcement_time
                        /\ current_waypoint_index' = current_waypoint_index
                        /\ last_spoken_instruction' = last_spoken_instruction
                        /\ waypoints' = waypoints]_vars

\* an off-route tick exactly 10 s after the last announcement stayed silent
C18_Witness ==
    /\ lastOp = "update" /\ mpc = "idle"
    /\ navigation_active
    /\ lastSaid = <<>>
    /\ current_waypoint_index < Len(waypoints)
    /\ calculate_distance(current_gps, waypoints[current_waypoint_index + 1].pos) = 60
    /\ clock - last_announcement_time = 10

C20_BoundedQueue == Len(audio_queue) < MaxUtter

\* the pedestrian navigator's progress
pedestrianProgress ==
    <<destination, waypoints, current_waypoint_index, last_spoken_instruction,
      navigation_active>>

\* C21: starting or stopping robot navigation (POST /robot/navigate-to,
\* POST /robot/stop) leaves the pedestrian navigator's destination, waypoints,
\* current_waypoint_index, last_spoken_instruction and navigation_active
\* unchanged.
C21_RobotLeavesPedestrian ==
    [][(/\ mpc = "idle" /\ clock' = clock /\ wpc' = wpc /\ inflight' = inflight
        /\ \/ lastOp' = "robot_stop" /\ tpc' = tpc
           \/ /\ lastOp' = "navigate"
              /\ \/ tpc' = tpc
                 \/ \E t \in Threads : tpc[t] = "unborn" /\ tpc'[t] = "start")
            => pedestrianProgress' = pedestrianProgress]_vars

\* the heading calculate_next_direction used on the inputs q_hd, q_stale
usedHeading == IF q_hd = None THEN q_stale ELSE q_hd

\* C26 as stated: the normalized angle difference lies in (-180, 180]: it is
\* never -180, and a bearing exactly opposite the heading gives 180.
C26_RangeUpperClosed ==
    q_result.angle_diff # NoAngle =>
        /\ -180 < q_result.angle_diff /\ q_result.angle_diff <= 180
        /\ Abs(q_gps.bearing - usedHeading) = 180 => q_result.angle_diff = 180

\* C26: the normalized angle difference is congruent to bearing - heading
\* modulo 360 and lies in [-180, 180): it is never 180, and a bearing exactly
\* opposite the heading gives -180.
C26_RangeLowerClosed ==
    q_result.angle_diff # NoAngle =>
        /\ (q_result.angle_diff - (q_gps.bearing - usedHeading)) % 360 = 0
        /\ -180 <= q_result.angle_diff /\ q_result.angle_diff < 180
        /\ Abs(q_gps.bearing - usedHeading) = 180 => q_result.angle_diff = -180

\* a bearing exactly opposite the heading was decided on
C26_Witness ==
    /\ q_result.angle_diff = -180
    /\ q_gps.bearing = 180 /\ usedHeading = 0

\* C27: a decision that gets as far as d, the shortest signed turn from the
\* heading to the bearing across the 0/360 wrap, with |d| >= HEADING_TOLERANCE
\* is 'right' for d > 0 and 'left' otherwise; heading 350 and bearing 10 give
\* d = 20 and 'right'; heading 45 gives 'forward' for bearing 52, 'right' for
\* bearing 70 and 'left' for bearing 20.
C27_TurnDirection ==
    LET d == q_result.angle_diff
        h == usedHeading
        b == q_gps.bearing
    IN  d # NoAngle =>
          /\ (d - (b - h)) % 360 = 0 /\ Abs(d) <= 180
          /\ Abs(d) >= 15 => q_result.direction = (IF d > 0 THEN "right" ELSE "left")
          /\ (h = 350 /\ b = 10) => (d = 20 /\ q_result.direction = "right")
          /\ (h = 45 /\ b = 52) => q_result.direction = "forward"
          /\ (h = 45 /\ b = 70) => q_result.direction = "right"
          /\ (h = 45 /\ b = 20) => q_result.direction = "left"

\* the turn across the wrap was decided on
C27_Witness ==
    /\ q_result.heading = 350 /\ q_gps.bearing = 10
    /\ q_result.angle_diff = 20 /\ q_result.direction = "right"

\* C25: a tick between 20 and 50 m from the active waypoint emits one progress
\* update and sets last_announcement_time to now exactly when more than the
\* interval of the distance (5 s below 30 m, 8 s below 100 m, 15 s beyond)
\* has passed since last_announcement_time; otherwise it emits nothing and
\* changes no progress field.
C25_ProgressThrottle ==
    [][(/\ HandlerStep
        /\ lastOp' = "update"
        /\ navigation_active
        /\ current_waypoint_index < Len(waypoints)
        /\ calculate_distance(current_gps', waypoints[current_waypoint_index + 1].pos)
              >= GUIDANCE_DISTANCE_THRESHOLD
        /\ calculate_distance(current_gps', waypoints[current_waypoint_index + 1].pos)
              <= OFF_ROUTE_THRESHOLD)
            => LET wp == waypoints[current_waypoint_index + 1]
                   d == calculate_distance(current_gps', wp.pos)
                   interval == IF d < 30 THEN 5 ELSE IF d < 100 THEN 8 ELSE 15
               IN  /\ current_waypoint_index' = current_waypoint_index
                   /\ last_spoken_instruction' = last_spoken_instruction
                   /\ waypoints' = waypoints
                   /\ navigation_active'
                   /\ IF clock - last_announcement_time > interval
                      THEN /\ nextId' = nextId + 1
                           /\ Len(lastSaid') = 1
                           /\ lastSaid'[1].kind = "progress"
                           /\ lastSaid'[1].dist = d
                           /\ last_announcement_time' = clock
                      ELSE /\ nextId' = nextId
                           /\ lastSaid' = <<>>
                           /\ last_announcement_time' = last_announcement_time]_vars

\* an on-route tick under 30 m from the waypoint, exactly 5 s after the last
\* announcement, stayed silent
C25_Witness ==
    /\ lastOp = "update" /\ mpc = "idle"
    /\ navigation_active
    /\ current_waypoint_index < Len(waypoints)
    /\ calculate_distance(current_gps, waypoints[current_waypoint_index + 1].pos) \in 20..29
    /\ lastSaid = <<>>
    /\ clock - last_announcement_time = 5

\* C28: test-guidance while a session is active, at a fix 20 m or more from
\* the active waypoint, emits exactly one utterance (off-route beyond 50 m,
\* progress otherwise) whatever last_announcement_time was, and stamps it; a
\* forced tick that recorded no announcement time leaves
\* last_announcement_time at its previous value, also when it ends the
\* session; without a session the call changes nothing.
C28_ForceBypassesGate ==
    /\ [][(HandlerStep /\ lastOp' = "force") =>
            IF ~navigation_active
            THEN /\ navVars' = navVars
                 /\ audio_queue' = audio_queue /\ nextId' = nextId /\ mpc' = "idle"
            ELSE /\ (/\ current_gps # None
                     /\ current_waypoint_index < Len(waypoints)
                     /\ calculate_distance(current_gps,
                                           waypoints[current_waypoint_index + 1].pos)
                           >= GUIDANCE_DISTANCE_THRESHOLD)
                       => /\ nextId' = nextId + 1
                          /\ Len(lastSaid') = 1
                          /\ lastSaid'[1].kind =
                                (IF calculate_distance(current_gps,
                                        waypoints[current_waypoint_index + 1].pos)
                                      > OFF_ROUTE_THRESHOLD
                                 THEN "off_route" ELSE "progress")
                          /\ last_announcement_time' = clock
                 /\ mpc' = "idle"
                       => last_announcement_time' \in {clock, last_announcement_time}
                 /\ (mpc' = "idle" /\ nextId' = nextId)
                       => last_announcement_time' = last_announcement_time
                 /\ mpc' # "idle"
                       => old_time' = last_announcement_time]_vars
    /\ [][(lastOp = "force" /\ mcont = "completed" /\ mpc # "idle" /\ mpc' = "idle")
            => last_announcement_time' = old_time]_vars

\* a forced tick spoke a progress update 5 s after the announcement before it,
\* inside the 8 s interval of its distance
C28_Witness ==
    /\ lastOp = "force" /\ mpc = "idle"
    /\ navigation_active
    /\ Len(lastSaid) = 1 /\ lastSaid[1].kind = "progress" /\ lastSaid[1].dist >= 30
    /\ last_announcement_time = Epoch + 5
    /\ nextId = 4

\* C22: every utterance put on the queue is in the end finished by the worker
\* or removed by clear_queue; the end of a synthesis, by return, timeout or
\* error, lowers currently_speaking and takes the worker back to get(), and
\* the worker never stops.
C22_EveryUtteranceFinished ==
    /\ \A u \in 1..MaxUtter :
          (u \in Ids(audio_queue)) ~> (u \in Range(completed) \cup cleared)
    /\ [][completed' # completed
            => /\ synthesis' \in SynthesisOutcomes
               /\ ~currently_speaking'
               /\ wpc' = "get"]_vars
    /\ [](wpc \in {"get", "speaking"})

\* after an audio timeout the worker is back at get() with utterances pending
C22_Witness ==
    /\ synthesis = "timeout"
    /\ completed # <<>>
    /\ wpc = "get" /\ ~currently_speaking
    /\ audio_queue # <<>>

\* C23: one iteration of navigate_to_destination enqueues at most one
\* utterance, whatever the distance, the queue size and the loop counter are.
C23_OneUtterancePerIteration == Len(h_said) <= 1

\* C24: the iteration that finds current_waypoint_index >= len(route_waypoints)
\* ends the navigation and leaves the arrival message as the only pending
\* narration, and nothing is spoken by the loop after it.
C24_ArrivalClearsPending ==
    /\ [][(h_lpc = "top" /\ h_lpc' = "done")
            => /\ ~h_is_navigating'
               /\ Len(h_said') = 1 /\ h_said'[1].kind = "arrival"
               /\ h_queue' = <<h_nextId>>]_vars
    /\ [][h_lpc = "done" => (h_lpc' = "done" /\ h_nextId' = h_nextId)]_vars

\* C29: no status update, waypoint guidance, final-destination announcement,
\* off-route message or intermediate guidance of the loop is enqueued with 2
\* or more messages already on the queue.
C29_Backpressure ==
    \A i \in 1..Len(h_said) :
        h_said[i].kind \in {"status", "guidance", "final", "off_route", "intermediate"}
            => h_said[i].qsize < 2

\* the waypoint whose instruction has not been spoken although the index
\* points at it
owedInstruction ==
    IF /\ h_current_waypoint_index \in 1..(Len(h_route_waypoints) - 1)
       /\ h_route_waypoints[h_current_waypoint_index + 1].instruction
             # h_last_spoken_instruction
    THEN h_route_waypoints[h_current_waypoint_index + 1].instruction
    ELSE ""

\* C30: an iteration that starts with a waypoint instruction still unspoken,
\* an empty queue and the last message ended 8 s ago or longer, enqueues the
\* guidance for that waypoint.
C30_InstructionRetried ==
    [][(/\ h_lpc = "branch" /\ h_lpc' # "branch"
        /\ owedInstruction # ""
        /\ h_queue = <<>>
        /\ h_last_speech_time # None
        /\ clock - h_last_speech_time >= 8)
            => /\ \E i \in 1..Len(h_said') : h_said'[i].kind = "guidance"
               /\ h_last_spoken_instruction' = owedInstruction]_vars

\* distance between two points of a circle of circumference m
CircDist(a, b, m) == Min((a - b) % m, (b - a) % m)

labelTable == IF c_resolution = 16 THEN directions ELSE h_directions

\* C31: for every integer bearing in [0, 360) the label returned is an entry
\* of the table of the chosen resolution (8 or 16 points), the centre of its
\* sector is the one nearest to the bearing (at most half a sector away,
\* measured round the circle; angles are counted in quarter degrees), and a
\* bearing less than half a sector below 360 is labelled North.
C31_NearestSector ==
    c_label # NoLabel =>
        /\ \E i \in 1..c_resolution :
              /\ labelTable[i] = c_label
              /\ 2 * c_resolution * CircDist(4 * c_bearing, (i - 1) * (1440 \div c_resolution), 1440)
                    <= 1440
        /\ (2 * c_resolution * (1440 - 4 * c_bearing) < 1440) => c_label = labelTable[1]

C31_Witness ==
    /\ c_resolution = 16 /\ c_bearing = 355 /\ c_label = "north"

\* the threads that are inside the loop of start_navigation (lines 199-221)
loopsRunning == {t \in Threads : tpc[t] \in {"loop", "miss", "publish", "post"}}

\* C32: at most one robot navigation loop executes at any time, whatever the
\* interleaving of navigate-to and stop requests with the loop threads.
C32_OneLoop == Cardinality(loopsRunning) <= 1

\* C33: whenever start_navigation returns, with either result, is_navigating
\* is false.
C33_ReturnLowersFlag ==
    [][\A t \in Threads : (tpc[t] # "done" /\ tpc'[t] = "done") => ~is_navigating']_vars

\* C34: while 'stopped', published by stop_navigation, is the last command in
\* the sink and no navigate-to request has followed the stop request, no loop
\* thread replaces it with a direction.
C34_StoppedStaysLast ==
    [][(published = "stopped" /\ lastOp = "robot_stop" /\ lastOp' = "robot_stop")
          => published' = "stopped"]_vars

\* C35: in the backend VoiceNavigator 0 <= current_waypoint_index <=
\* len(waypoints) in every reachable state; a tick that derives guidance from
\* a waypoint (it speaks, or advances the index) runs with the index strictly
\* below len(waypoints), and a tick that finds the index at len(waypoints)
\* takes the completed branch, which reads no waypoint.
C35_IndexInRange ==
    /\ [](0 <= current_waypoint_index /\ current_waypoint_index <= Len(waypoints))
    /\ [][(HandlerStep /\ lastOp' \in TickOps /\ navigation_active
              /\ current_gps' # None /\ waypoints # <<>>)
            => /\ (lastSaid' # <<>> \/ current_waypoint_index' # current_waypoint_index)
                    => current_waypoint_index < Len(waypoints)
               /\ current_waypoint_index >= Len(waypoints)
                    => (mcont' = "completed" /\ lastSaid' = <<>>
                          /\ current_waypoint_index' = current_waypoint_index)]_vars

\* the last waypoint of a route of two has been reached: the index stands at
\* len(waypoints) while navigation is still active
C35_Witness ==
    /\ mpc = "idle" /\ lastOp = "update"
    /\ navigation_active
    /\ Len(waypoints) = 2
    /\ current_waypoint_index = Len(waypoints)

\* C36: a tick emits a progress update only at a distance of 20 m to 50 m from
\* the active waypoint; at those distances the interval of the on-route branch
\* is 5 s or 8 s, never 15 s, so an update-gps tick there that comes more than
\* 8 s after the last announcement always emits the progress update.
C36_OnRouteIntervals ==
    [][(/\ HandlerStep
        /\ lastOp' \in TickOps
        /\ navigation_active
        /\ current_gps' # None
        /\ current_waypoint_index < Len(waypoints))
            => LET wp == waypoints[current_waypoint_index + 1]
                   d == calculate_distance(current_gps', wp.pos)
                   on_route == d >= GUIDANCE_DISTANCE_THRESHOLD /\ d <= OFF_ROUTE_THRESHOLD
                   progress == lastSaid' # <<>> /\ lastSaid'[1].kind = "progress"
               IN  /\ progress => on_route
                   /\ on_route => min_interval(d) \in {5, 8}
                   /\ (on_route /\ lastOp' = "update" /\ clock - last_announcement_time > 8)
                         => progress]_vars

\* 30 m from the waypoint, where the interval is 8 s, an update-gps tick has
\* emitted the progress update
C36_Witness ==
    /\ lastOp = "update" /\ mpc = "idle"
    /\ navigation_active
    /\ Len(lastSaid) = 1
    /\ lastSaid[1].kind = "progress"
    /\ lastSaid[1].dist = 30
    /\ last_announcement_time = clock
    /\ clock > Epoch

\* the speak() calls of the iteration include one of this kind
saidKind(said, kind) == \E i \in 1..Len(said) : said[i].kind = kind

\* C37: the intermediate-guidance branch of the pedestrian loop is taken in
\* the states its own condition describes (every 50th iteration, more than
\* 50 m from the waypoint, fewer than 2 utterances pending, 15 s since the
\* last speech): such an iteration speaks the intermediate guidance and is
\* not taken over by the off-route branch before it.
C37_IntermediateTaken ==
    [][(/\ h_lpc = "branch" /\ h_lpc' # "branch"
        /\ h_current_waypoint_index < Len(h_route_waypoints)
        /\ location_update_counter % 50 = 0
        /\ calculate_distance(h_current_location,
                              h_route_waypoints[h_current_waypoint_index + 1].pos) > 50
        /\ Len(h_queue) < 2
        /\ h_last_speech_time # None
        /\ clock - h_last_speech_time >= 15)
            => /\ saidKind(h_said', "intermediate")
               /\ ~saidKind(h_said', "off_route")]_vars

\* no iteration of the loop ever speaks the intermediate guidance
IntermediateNeverSpoken == ~saidKind(h_said, "intermediate")

\* C39: the navigation loop never reads last_speech_time before an audio
\* worker has written it: no iteration is aborted at its announcement branch,
\* an iteration that advances current_waypoint_index goes on to its regular
\* sleep, and one that queues the guidance of a waypoint has read a written
\* last_speech_time.
C39_SpeechTimeWritten ==
    [][(h_lpc = "branch" /\ h_lpc' # "branch")
          => /\ h_lpc' = "sleep8"
             /\ saidKind(h_said', "guidance") => h_last_speech_time # None]_vars

\* the first waypoint was reached before any utterance had finished: the
\* index has advanced and the iteration has gone on to its sleep
C39_Witness ==
    /\ h_lpc = "sleep8"
    /\ h_current_waypoint_index = 1
    /\ h_last_speech_time = None

\* the speech threads that are running
speechThreads == {t \in VThreads : g_spc[t] = "say"}

\* C38: in the vision assistant's AudioSystem at most one speech thread runs
\* at a time, also when speak() is called from analysis threads that run
\* concurrently.
C38_OneSpeechThread == Cardinality(speechThreads) <= 1

====
